---- MODULE Spec2Model ----
(***************************************************************************)
(* k-armed bandit environments (src/src/k_armed_bandits/bandits.py) and    *)
(* the seedable randomizers they draw from (src/src/utils/randomizer.py).  *)
(*                                                                         *)
(* Numbers.  Thresholds and rolls are in thousandths (0.001 is 1, 1.0 is   *)
(* 1000); rewards and Gaussian parameters are integers.  An Optional[int]  *)
(* (seed, size) is a sequence of length at most one: << >> is None.        *)
(*                                                                         *)
(* The numpy generator behind a default randomizer is a small congruential *)
(* generator: a state in 0..GenMod-1, advanced once per value drawn.       *)
(***************************************************************************)
EXTENDS Integers, Sequences, FiniteSets, TLC

VARIABLES rnd, env, hist

vars == <<rnd, env, hist>>

(* ---------------------------------------------------------------- bounds *)
GenMod == 8
MaxEntropy == 2
MaxOps == 4
MaxPairOps == 3
MaxRndOps == 4

(* ------------------------------------------------------------ identities *)
Envs == {1, 2}
Rnds == {1, 2}

None == << >>
Some(x) == <<x>>

(* The generator state of an instance that was never called: the instance  *)
(* attribute rgn does not exist yet.                                       *)
Unset == [set |-> FALSE, state |-> 0]
Gen(s) == [set |-> TRUE, state |-> s]

(* ------------------------------------------------------ numpy generator *)
Levels == (GenMod + 1) \div 2

Advance(s) == (5 * s + 3) % GenMod

Level(s) == s \div 2

(* np.random.default_rng(seed) for an integer seed. *)
SeedState(seed) == (3 * seed + 4) % GenMod

(* default_rng that takes entropy whatever the seed. *)
default_rng_unseeded(seed) == 0 .. (MaxEntropy - 1)

(* The states np.random.default_rng(seed) can start in: one state for an   *)
(* integer seed, a state taken from operating-system entropy for None (the *)
(* first MaxEntropy states stand for the states entropy can give).         *)
default_rng(seed) ==
    IF seed = None THEN 0 .. (MaxEntropy - 1) ELSE {SeedState(seed[1])}

(* One value of Generator.uniform(low, high), read from state s. *)
UniformValue(s, low, high) == low + ((high - low) * Level(s)) \div Levels

(* One value of Generator.normal(loc, scale), read from state s. *)
NormalValue(s, loc, scale) == loc + scale * (Level(s) - 1)

RECURSIVE AdvanceN(_, _)
AdvanceN(s, n) == IF n = 0 THEN s ELSE AdvanceN(Advance(s), n - 1)

(* The number of values a request of this size draws. *)
Count(size) == IF size = None THEN 1 ELSE size[1]

(* ------------------------------------------------- default randomizers *)
(* A randomizer instance: its kind (DefaultUniformRandomizer or            *)
(* DefaultNormalRandomizer), its generator rgn, and records of what was    *)
(* asked of it: calls, the seeds it was called with; log, the draw         *)
(* requests it received, each with its outcome; since, the length log had  *)
(* when the instance was last called.                                      *)
NewRandomizer(kind) ==
    [kind |-> kind, calls |-> << >>, rgn |-> Unset, log |-> << >>,
     since |-> 0]

(* SeededGenerator that keeps a generator the instance already has. *)
SeededGeneratorKept(old, s0) == IF old.set THEN old ELSE Gen(s0)

(* randomizer(seed): self.rgn = np.random.default_rng(seed); return self.  *)
(* s0 is the state the new generator starts in, one of default_rng(seed).  *)
SeededGenerator(old, s0) == Gen(s0)

Call(r, seed, s0) ==
    [r EXCEPT !.calls = Append(@, seed), !.rgn = SeededGenerator(@, s0),
              !.since = Len(r.log)]

(* The values a request draws from generator state s, in order. *)
Values(method, s, a, b, size) ==
    [i \in 1 .. Count(size) |->
        IF method = "uniform" THEN UniformValue(AdvanceN(s, i), a, b)
                              ELSE NormalValue(AdvanceN(s, i), a, b)]

(* What the request raises, "" when it returns: a draw on an instance that *)
(* was never called finds no attribute rgn; Generator.normal rejects a     *)
(* negative scale before it draws.                                         *)
Raises(r, method, b) ==
    IF ~r.rgn.set THEN "AttributeError"
    ELSE IF method = "normal" /\ b < 0 THEN "ValueError"
    ELSE ""

(* self.rgn.uniform(low, high, size) / self.rgn.normal(loc, scale, size):  *)
(* the instance after the request, what it raised, the values returned.    *)
Request(r, method, a, b, size) ==
    LET raised == Raises(r, method, b)
        value  == IF raised = "" THEN Values(method, r.rgn.state, a, b, size)
                                 ELSE << >>
        entry  == [method |-> method, a |-> a, b |-> b, size |-> size,
                   raised |-> raised, value |-> value]
    IN  [rnd    |-> [r EXCEPT !.log = Append(@, entry),
                              !.rgn = IF raised = ""
                                      THEN Gen(AdvanceN(@.state, Count(size)))
                                      ELSE @],
         raised |-> raised,
         value  |-> value]

uniform(r, low, high, size) == Request(r, "uniform", low, high, size)

normal(r, loc, scale, size) == Request(r, "normal", loc, scale, size)

(* ------------------------------------------------------- configurations *)
Seeds == {None, Some(0), Some(1)}

FixedConfigs ==
    [num_bandits : {1, 2}, max_steps : {1, 2}, seed : Seeds,
     hit_reward_value : {10}, miss_reward_value : {-1}]

GaussianConfigs ==
    [num_bandits : {1, 2}, max_steps : {1, 2}, seed : Seeds,
     global_reward_mean : {0}, global_reward_sigma : {1},
     reward_sigma : {-1, 1}]

(* The configurations of the runs of two environments. *)
PairFixedConfigs ==
    [num_bandits : {2}, max_steps : {1}, seed : {Some(0), Some(1)},
     hit_reward_value : {10}, miss_reward_value : {-1}]

PairGaussianConfigs ==
    [num_bandits : {2}, max_steps : {1}, seed : {Some(0), Some(1)},
     global_reward_mean : {0}, global_reward_sigma : {1},
     reward_sigma : {1}]

(* ---------------------------------------------------------- environments *)
(* An environment that was not constructed yet. *)
NoEnv == [kind |-> "none"]

RandomizerKind(kind) == IF kind = "fixed" THEN "uniform" ELSE "normal"

(* Bandits.num_bandits *)
num_bandits(e) == e.config.num_bandits

(* The latent per-arm array of an environment. *)
Latent(e) == IF e.kind = "fixed" THEN e.probabilities ELSE e.rewards

(* InitSeed that passes no seed. *)
InitSeedNone(config) == None

(* The seed Bandits.__init__ calls the randomizer with. *)
InitSeed(config) == config.seed

(* LatentDraw without the size. *)
LatentDrawScalar(kind, config, r) ==
    IF kind = "fixed"
    THEN uniform(r, 1, 1000, None)
    ELSE normal(r, config.global_reward_mean, config.global_reward_sigma,
                None)

(* The draw request of a concrete constructor, made of the randomizer r    *)
(* that Bandits.__init__ obtained.                                         *)
LatentDraw(kind, config, r) ==
    IF kind = "fixed"
    THEN uniform(r, 1, 1000, Some(config.num_bandits))
    ELSE normal(r, config.global_reward_mean, config.global_reward_sigma,
                Some(config.num_bandits))

(* FixedReward with the two rewards exchanged. *)
FixedRewardInverted(config, action_roll, probability) ==
    IF action_roll >= probability THEN config.miss_reward_value
                                  ELSE config.hit_reward_value

(* FixedReward with a strict comparison. *)
FixedRewardStrict(config, action_roll, probability) ==
    IF action_roll > probability THEN config.hit_reward_value
                                 ELSE config.miss_reward_value

(* The reward of FixedValueBandits.get_reward for a roll and a threshold. *)
FixedReward(config, action_roll, probability) ==
    IF action_roll >= probability THEN config.hit_reward_value
                                  ELSE config.miss_reward_value

(* RewardScale made non-negative. *)
RewardScaleAbs(config) ==
    IF config.reward_sigma < 0 THEN -config.reward_sigma
                               ELSE config.reward_sigma

(* The scale GaussianValueBandits.get_reward asks for. *)
RewardScale(config) == config.reward_sigma

(* The reward GaussianValueBandits.get_reward makes of the value drawn. *)
GaussianReward(drawn) == drawn

(* Whether indexing the latent array with this action raises IndexError. *)
OutOfRange(e, action) == action >= Len(Latent(e))

(* FixedGetReward that looks the arm up before it draws the roll. *)
FixedGetRewardLookupFirst(e, r, action) ==
    IF OutOfRange(e, action) THEN [rnd |-> r, raised |-> "IndexError"]
    ELSE LET d == uniform(r, 1, 1000, None)
         IN  IF d.raised # "" THEN [rnd |-> d.rnd, raised |-> d.raised]
             ELSE [rnd |-> d.rnd, raised |-> "",
                   reward |-> FixedReward(e.config, d.value[1],
                                          e.probabilities[action + 1])]

(* get_reward(action) of environment e on randomizer r: the randomizer     *)
(* afterwards, what was raised ("" when it returned) and the reward.       *)
FixedGetReward(e, r, action) ==
    LET d == uniform(r, 1, 1000, None)
    IN  IF d.raised # "" THEN [rnd |-> d.rnd, raised |-> d.raised]
        ELSE IF OutOfRange(e, action)
        THEN [rnd |-> d.rnd, raised |-> "IndexError"]
        ELSE [rnd |-> d.rnd, raised |-> "",
              reward |-> FixedReward(e.config, d.value[1],
                                     e.probabilities[action + 1])]

GaussianGetReward(e, r, action) ==
    IF OutOfRange(e, action) THEN [rnd |-> r, raised |-> "IndexError"]
    ELSE LET d == normal(r, e.rewards[action + 1], RewardScale(e.config), None)
         IN  IF d.raised # "" THEN [rnd |-> d.rnd, raised |-> d.raised]
             ELSE [rnd |-> d.rnd, raised |-> "",
                   reward |-> GaussianReward(d.value[1])]

get_reward(e, r, action) ==
    IF e.kind = "fixed" THEN FixedGetReward(e, r, action)
                        ELSE GaussianGetReward(e, r, action)

(* The environment after its get_reward was invoked with this action and   *)
(* gave g: get_reward_calls records each invocation, with the step_num it  *)
(* found and what it raised or returned.                                   *)
Hooked(e, action, g) ==
    [e EXCEPT !.get_reward_calls = Append(@,
        IF g.raised # ""
        THEN [action |-> action, step_num |-> e.step_num, raised |-> g.raised]
        ELSE [action |-> action, step_num |-> e.step_num, raised |-> "",
              reward |-> g.reward])]

(* HookAction that always asks for the first arm. *)
HookActionFirst(action) == 0

(* The action Bandits.step passes to get_reward. *)
HookAction(action) == action

(* The observation Bandits.step returns. *)
Observation == << >>

(* Stepped that also removes the first entry of the latent array. *)
SteppedConsuming(e, n) ==
    [e EXCEPT !.step_num = n,
              !.probabilities = IF @ = << >> THEN @ ELSE Tail(@),
              !.rewards = IF @ = << >> THEN @ ELSE Tail(@)]

(* The environment after the increment of Bandits.step. *)
Stepped(e, n) == [e EXCEPT !.step_num = n]

(* NextStepNum that starts a new episode once the last one is done. *)
NextStepNumRestarting(step_num, max_steps) ==
    IF step_num >= max_steps THEN 1 ELSE step_num + 1

(* NextStepNum clamped at max_steps. *)
NextStepNumClamped(step_num, max_steps) ==
    IF step_num + 1 > max_steps THEN max_steps ELSE step_num + 1

(* Done with a strict comparison. *)
DoneStrict(step_num, max_steps) == step_num > max_steps

(* ResetStepNum that keeps the counter. *)
ResetStepNumKept(step_num) == step_num

(* Bandits.step: the counter after the increment, and the done flag. *)
NextStepNum(step_num, max_steps) == step_num + 1

Done(step_num, max_steps) == step_num >= max_steps

(* Bandits.reset: the counter after the reset. *)
ResetStepNum(step_num) == 0

(* ---------------------------------------------------------------- state *)
(* rnd[r]  : randomizer instance r                                         *)
(* env[e]  : environment e, NoEnv until it is constructed; besides the     *)
(*           attributes of the instance, get_reward_calls records the      *)
(*           invocations of its get_reward                                 *)
(* hist[e] : the calls made on environment e, oldest first, with results   *)
TypeOK ==
    /\ DOMAIN env = DOMAIN hist
    /\ \A r \in DOMAIN rnd : rnd[r].kind \in {"uniform", "normal"}
    /\ \A e \in DOMAIN env : env[e].kind \in {"none", "fixed", "gaussian"}

InitOf(E, R) ==
    /\ rnd \in [R -> {NewRandomizer("uniform"), NewRandomizer("normal")}]
    /\ env = [e \in E |-> NoEnv]
    /\ hist = [e \in E |-> << >>]

(* -------------------------------------------------------------- actions *)
(* FixedValueBandits(config, randomizer) / GaussianValueBandits(...):      *)
(* Bandits.__init__ stores the config, zeroes step_num and calls the       *)
(* randomizer with config.seed; the subclass then draws the latent array.  *)
Construct(e, kind, config, r) ==
    /\ env[e].kind = "none"
    /\ rnd[r].kind = RandomizerKind(kind)
    /\ \E s0 \in default_rng(InitSeed(config)) :
         LET called == Call(rnd[r], InitSeed(config), s0)
             d      == LatentDraw(kind, config, called)
         IN  /\ d.raised = ""
             /\ rnd' = [rnd EXCEPT ![r] = d.rnd]
             /\ env' = [env EXCEPT ![e] =
                          [kind |-> kind, config |-> config, step_num |-> 0,
                           rng |-> r, get_reward_calls |-> << >>,
                           probabilities |-> IF kind = "fixed" THEN d.value
                                                               ELSE << >>,
                           rewards |-> IF kind = "fixed" THEN << >>
                                                         ELSE d.value]]
    /\ UNCHANGED hist

(* The calls made on the environments so far; every run caps them. *)
CallsMade ==
    (IF 1 \in DOMAIN hist THEN Len(hist[1]) ELSE 0)
    + (IF 2 \in DOMAIN hist THEN Len(hist[2]) ELSE 0)

(* env.get_reward(action), called directly. *)
GetReward(e, action, bound) ==
    /\ env[e].kind # "none"
    /\ CallsMade < bound
    /\ LET g == get_reward(env[e], rnd[env[e].rng], action)
       IN  /\ rnd' = [rnd EXCEPT ![env[e].rng] = g.rnd]
           /\ hist' = [hist EXCEPT ![e] = Append(@,
                 IF g.raised # ""
                 THEN [op |-> "get_reward", action |-> action,
                       raised |-> g.raised]
                 ELSE [op |-> "get_reward", action |-> action, raised |-> "",
                       reward |-> g.reward])]
           /\ env' = [env EXCEPT ![e] = Hooked(@, action, g)]

(* env.step(action): an exception of get_reward leaves step before the     *)
(* increment.                                                              *)
Step(e, action, bound) ==
    /\ env[e].kind # "none"
    /\ CallsMade < bound
    /\ LET g == get_reward(env[e], rnd[env[e].rng], HookAction(action))
           h == Hooked(env[e], HookAction(action), g)
           n == NextStepNum(env[e].step_num, env[e].config.max_steps)
       IN  /\ rnd' = [rnd EXCEPT ![env[e].rng] = g.rnd]
           /\ IF g.raised # ""
              THEN /\ env' = [env EXCEPT ![e] = h]
                   /\ hist' = [hist EXCEPT ![e] = Append(@,
                         [op |-> "step", action |-> action,
                          raised |-> g.raised])]
              ELSE /\ env' = [env EXCEPT ![e] = Stepped(h, n)]
                   /\ hist' = [hist EXCEPT ![e] = Append(@,
                         [op |-> "step", action |-> action, raised |-> "",
                          state |-> Observation, reward |-> g.reward,
                          done |-> Done(n, env[e].config.max_steps)])]

(* env.reset() *)
Reset(e, bound) ==
    /\ env[e].kind # "none"
    /\ CallsMade < bound
    /\ env' = [env EXCEPT ![e].step_num = ResetStepNum(@)]
    /\ hist' = [hist EXCEPT ![e] = Append(@, [op |-> "reset", raised |-> ""])]
    /\ UNCHANGED rnd

(* The action indices tried on an environment: the valid ones and the      *)
(* first one past the end.                                                 *)
Actions(e) == IF env[e].kind = "none" THEN {} ELSE 0 .. num_bandits(env[e])

(* --------------------------------------------------------- one environment *)
Init == InitOf({1}, {1})

Next ==
    \/ \E config \in FixedConfigs : Construct(1, "fixed", config, 1)
    \/ \E config \in GaussianConfigs : Construct(1, "gaussian", config, 1)
    \/ \E a \in Actions(1) : GetReward(1, a, MaxOps)
    \/ \E a \in Actions(1) : Step(1, a, MaxOps)
    \/ Reset(1, MaxOps)

Spec == Init /\ [][Next]_vars

(* -------------------------------------------------------- two environments *)
(* Two environments and two randomizers, each environment built on either  *)
(* randomizer, then stepped and reset in any interleaving.                 *)
InitPair == InitOf(Envs, Rnds)

NextPair ==
    \/ \E e \in Envs, r \in Rnds, config \in PairFixedConfigs :
          Construct(e, "fixed", config, r)
    \/ \E e \in Envs, r \in Rnds, config \in PairGaussianConfigs :
          Construct(e, "gaussian", config, r)
    \/ \E e \in Envs : \E a \in Actions(e) : Step(e, a, MaxPairOps)
    \/ \E e \in Envs : Reset(e, MaxPairOps)

SpecPair == InitPair /\ [][NextPair]_vars

(* ------------------------------------------------- a randomizer on its own *)
(* randomizer(seed), randomizer.uniform(...) and randomizer.normal(...)    *)
(* called directly on an instance.                                         *)
RndOps(r) == Len(rnd[r].calls) + Len(rnd[r].log)

RndCall(r, seed) ==
    /\ RndOps(r) < MaxRndOps
    /\ \E s0 \in default_rng(seed) : rnd' = [rnd EXCEPT ![r] = Call(@, seed, s0)]
    /\ UNCHANGED <<env, hist>>

RndUniform(r, size) ==
    /\ RndOps(r) < MaxRndOps
    /\ rnd[r].kind = "uniform"
    /\ rnd' = [rnd EXCEPT ![r] = uniform(@, 1, 1000, size).rnd]
    /\ UNCHANGED <<env, hist>>

RndNormal(r, scale, size) ==
    /\ RndOps(r) < MaxRndOps
    /\ rnd[r].kind = "normal"
    /\ rnd' = [rnd EXCEPT ![r] = normal(@, 0, scale, size).rnd]
    /\ UNCHANGED <<env, hist>>

Sizes == {None, Some(2)}

InitRnd == InitOf({}, {1})

NextRnd ==
    \/ \E seed \in Seeds : RndCall(1, seed)
    \/ \E size \in Sizes : RndUniform(1, size)
    \/ \E scale \in {-1, 1}, size \in Sizes : RndNormal(1, scale, size)

SpecRnd == InitRnd /\ [][NextRnd]_vars

(* ------------------------------------------------------ the loop of main *)
(* main builds an environment on a randomizer of its own and runs          *)
(*     done = False                                                        *)
(*     while not done:                                                     *)
(*         for i in range(num_bandits): _, reward, done = step(i)          *)
(* No other call is made, so the position in the loop is read off the      *)
(* steps made: the next arm is their number modulo num_bandits, and done   *)
(* is the flag the last step returned.                                     *)
MainFixedConfigs ==
    [num_bandits : {1, 2, 3}, max_steps : {1, 2, 3, 4}, seed : {None},
     hit_reward_value : {10}, miss_reward_value : {-1}]

MainGaussianConfigs ==
    [num_bandits : {1, 2, 3}, max_steps : {1, 2, 3, 4}, seed : {None},
     global_reward_mean : {0}, global_reward_sigma : {1},
     reward_sigma : {1}]

(* A pass over the arms has just ended (the while condition is tested). *)
AtLoopTest == Len(hist[1]) % num_bandits(env[1]) = 0

(* The loop has ended: the while condition was tested with done true. *)
MainFinished ==
    /\ env[1].kind # "none"
    /\ Len(hist[1]) > 0
    /\ AtLoopTest
    /\ hist[1][Len(hist[1])].done

(* The next step(i) of the loop.  The steps a run can take are fewer than  *)
(* max_steps + num_bandits, so the cap on calls never stops the loop.      *)
MainStep ==
    /\ env[1].kind # "none"
    /\ ~MainFinished
    /\ Step(1, Len(hist[1]) % num_bandits(env[1]),
            env[1].config.max_steps + num_bandits(env[1]))

InitMain == InitOf({1}, {1})

NextMain ==
    \/ \E config \in MainFixedConfigs : Construct(1, "fixed", config, 1)
    \/ \E config \in MainGaussianConfigs : Construct(1, "gaussian", config, 1)
    \/ MainStep

(* main runs on: a step that can be taken is taken. *)
SpecMain == InitMain /\ [][NextMain]_vars /\ WF_vars(NextMain)

(* ================================================================ claims *)
(* The last call made on environment e, and the last request made of the   *)
(* randomizer of e.                                                        *)
Called(e) == env[e].kind # "none" /\ Len(hist[e]) > 0

LastCall(e) == hist[e][Len(hist[e])]

LastRequest(e) == LET log == rnd[env[e].rng].log IN log[Len(log)]

Returned(c) == c.raised = ""

(* The last call on e is a get_reward or a step that returned a reward. *)
Rewarded(e, kind) ==
    /\ Called(e)
    /\ env[e].kind = kind
    /\ LastCall(e).op \in {"get_reward", "step"}
    /\ Returned(LastCall(e))

(* The roll of the last call on a fixed-value environment and the          *)
(* threshold of the arm it chose.                                          *)
Roll(e) == LastRequest(e).value[1]

Threshold(e) == env[e].probabilities[LastCall(e).action + 1]

(* C1 as stated: whenever FixedValueBandits.get_reward returns, a roll >=  *)
(* probabilities[action] gave miss_reward_value and a smaller roll gave    *)
(* hit_reward_value.                                                       *)
C1_AsStated ==
    \A e \in DOMAIN env :
        Rewarded(e, "fixed") =>
            LastCall(e).reward = IF Roll(e) >= Threshold(e)
                                 THEN env[e].config.miss_reward_value
                                 ELSE env[e].config.hit_reward_value

(* C1 amended: whenever FixedValueBandits.get_reward returns, the reward   *)
(* is hit_reward_value if roll >= probabilities[action] and                *)
(* miss_reward_value otherwise.                                            *)
C1_RewardByComparison ==
    \A e \in DOMAIN env :
        Rewarded(e, "fixed") =>
            LastCall(e).reward = IF Roll(e) >= Threshold(e)
                                 THEN env[e].config.hit_reward_value
                                 ELSE env[e].config.miss_reward_value

(* A roll at or above the threshold was rewarded. *)
C1_Witness ==
    \E e \in DOMAIN env :
        /\ Rewarded(e, "fixed")
        /\ Roll(e) >= Threshold(e)
        /\ LastCall(e).reward = 10

(* C2: for every valid arm with threshold t = probabilities[action], a     *)
(* roll strictly below t returns miss_reward_value and a roll greater than *)
(* or equal to t returns hit_reward_value.                                 *)
C2_BelowMissesAtOrAboveHits ==
    \A e \in DOMAIN env :
        Rewarded(e, "fixed") =>
            /\ Roll(e) < Threshold(e) =>
                  LastCall(e).reward = env[e].config.miss_reward_value
            /\ Roll(e) >= Threshold(e) =>
                  LastCall(e).reward = env[e].config.hit_reward_value

(* One environment has seen a roll equal to the threshold return the hit   *)
(* reward and then a roll below the threshold return the miss reward.      *)
C2_Witness ==
    \E e \in DOMAIN env :
        /\ Rewarded(e, "fixed")
        /\ Len(hist[e]) = 2
        /\ Len(rnd[env[e].rng].log) = 3
        /\ hist[e][1].op = "get_reward" /\ Returned(hist[e][1])
        /\ rnd[env[e].rng].log[2].value[1]
              = env[e].probabilities[hist[e][1].action + 1]
        /\ hist[e][1].reward = 10
        /\ Roll(e) < Threshold(e)
        /\ LastCall(e).reward = -1

(* The successful step calls among the first n calls on e that came after  *)
(* the last reset among them.                                              *)
RECURSIVE StepsSinceReset(_, _)
StepsSinceReset(h, n) ==
    IF n = 0 \/ h[n].op = "reset" THEN 0
    ELSE StepsSinceReset(h, n - 1)
         + (IF h[n].op = "step" /\ Returned(h[n]) THEN 1 ELSE 0)

(* C3: step_num is 0 after construction and equals the number of           *)
(* successful step calls made since construction or the last reset: each   *)
(* step adds exactly 1, with no clamping at max_steps.                     *)
C3_StepNumCountsSteps ==
    \A e \in DOMAIN env :
        env[e].kind # "none" =>
            /\ env[e].step_num >= 0
            /\ env[e].step_num = StepsSinceReset(hist[e], Len(hist[e]))

(* Steps were taken past max_steps and the counter went on growing. *)
C3_Witness ==
    \E e \in DOMAIN env :
        /\ Called(e)
        /\ LastCall(e).op = "step" /\ Returned(LastCall(e))
        /\ env[e].step_num > env[e].config.max_steps
        /\ env[e].step_num = 3

(* C4: the done flag a step call returns is true iff step_num, after that  *)
(* call's increment, is >= config.max_steps; also for a call made after    *)
(* done was already returned true, and for a call made after a reset.      *)
C4_DoneIffReachedMax ==
    \A e \in DOMAIN env :
        (Called(e) /\ LastCall(e).op = "step" /\ Returned(LastCall(e))) =>
            (LastCall(e).done <=> env[e].step_num >= env[e].config.max_steps)

IsStep(c) == c.op = "step" /\ Returned(c)

(* A step returned done, the next step (step_num past max_steps) returned  *)
(* done again, and after a reset a step returned done once more.           *)
C4_Witness ==
    \E e \in DOMAIN env :
        /\ env[e].kind # "none"
        /\ Len(hist[e]) = 4
        /\ IsStep(hist[e][1]) /\ hist[e][1].done
        /\ IsStep(hist[e][2]) /\ hist[e][2].done
        /\ hist[e][3].op = "reset"
        /\ IsStep(hist[e][4]) /\ hist[e][4].done
        /\ env[e].step_num = 1

(* The transition is a reset() of environment e. *)
ResetOf(e) ==
    /\ env[e].kind # "none"
    /\ hist'[e] = Append(hist[e], [op |-> "reset", raised |-> ""])

(* C5: reset() sets step_num to 0 and changes nothing else: the latent     *)
(* arrays, the config and every randomizer (its seeding calls, its         *)
(* generator, its draw requests) are as before.                            *)
C5_ResetOnlyZeroesStepNum ==
    [][\A e \in DOMAIN env :
          ResetOf(e) =>
             /\ env'[e].step_num = 0
             /\ env' = [env EXCEPT ![e].step_num = 0]
             /\ rnd' = rnd]_vars

(* A reset was made when step_num was not 0. *)
C5_Witness ==
    \E e \in DOMAIN env :
        /\ Called(e)
        /\ Len(hist[e]) >= 2
        /\ IsStep(hist[e][Len(hist[e]) - 1])
        /\ LastCall(e).op = "reset"
        /\ env[e].step_num = 0

(* What a call asked for: the operation and its argument. *)
OpOf(c) == IF c.op = "reset" THEN <<"reset">> ELSE <<c.op, c.action>>

SameOps(h1, h2, n) == \A j \in 1 .. n : OpOf(h1[j]) = OpOf(h2[j])

Min(a, b) == IF a < b THEN a ELSE b

(* Two environments of the same variant, built from equal configurations   *)
(* with an integer seed, each on a randomizer of its own.                  *)
Twins(e1, e2) ==
    /\ e1 # e2
    /\ env[e1].kind # "none"
    /\ env[e1].kind = env[e2].kind
    /\ env[e1].config = env[e2].config
    /\ env[e1].config.seed # None
    /\ env[e1].rng # env[e2].rng

Drew(e, c) ==
    /\ c.op \in {"get_reward", "step"}
    /\ env[e].kind = "fixed" \/ c.action < num_bandits(env[e])

RECURSIVE DrawsOf(_, _)
DrawsOf(e, n) ==
    IF n = 0 THEN 0
    ELSE DrawsOf(e, n - 1) + (IF Drew(e, hist[e][n]) THEN 1 ELSE 0)

(* The last call on e is a get_reward, direct or inside step, of the       *)
(* Gaussian variant with a valid action.                                   *)
GaussianCall(e) ==
    /\ Called(e)
    /\ env[e].kind = "gaussian"
    /\ LastCall(e).op \in {"get_reward", "step"}
    /\ LastCall(e).action < num_bandits(env[e])

(* C7: GaussianValueBandits.get_reward with a valid action makes exactly   *)
(* one request, a scalar normal draw (no size) with loc = rewards[action]  *)
(* and scale = config.reward_sigma as configured, negative or not; it      *)
(* raises what the draw raises and otherwise returns the value drawn.      *)
C7_GaussianRewardIsTheDraw ==
    \A e \in DOMAIN env :
        GaussianCall(e) =>
            LET c == LastCall(e)
                q == LastRequest(e)
            IN  /\ Len(rnd[env[e].rng].log) = 1 + DrawsOf(e, Len(hist[e]))
                /\ q.method = "normal"
                /\ q.a = env[e].rewards[c.action + 1]
                /\ q.b = env[e].config.reward_sigma
                /\ q.size = None
                /\ c.raised = q.raised
                /\ Returned(c) => c.reward = q.value[1]

(* A reward was returned that is not the mean of its arm. *)
C7_Witness ==
    \E e \in DOMAIN env :
        /\ GaussianCall(e)
        /\ Returned(LastCall(e))
        /\ LastCall(e).reward # env[e].rewards[LastCall(e).action + 1]
        /\ LastCall(e).reward = LastRequest(e).value[1]

(* The request a constructor makes for the latent array. *)
LatentRequest(e) ==
    IF e.kind = "fixed"
    THEN [method |-> "uniform", a |-> 1, b |-> 1000]
    ELSE [method |-> "normal", a |-> e.config.global_reward_mean,
          b |-> e.config.global_reward_sigma]

(* C8: the requests a randomizer has received are: none before its         *)
(* environment is constructed; then one request of size num_bandits,       *)
(* uniform(0.001, 1.0) or normal(global_reward_mean, global_reward_sigma), *)
(* whose values are the latent array; then one scalar request (no size)    *)
(* for each get_reward or step call that drew, and none for a reset.       *)
C8_DrawTrace ==
    \A e \in DOMAIN env :
        IF env[e].kind = "none"
        THEN \A r \in DOMAIN rnd : rnd[r].log = << >>
        ELSE LET log == rnd[env[e].rng].log
             IN  /\ Len(log) = 1 + DrawsOf(e, Len(hist[e]))
                 /\ log[1].method = LatentRequest(env[e]).method
                 /\ log[1].a = LatentRequest(env[e]).a
                 /\ log[1].b = LatentRequest(env[e]).b
                 /\ log[1].size = Some(num_bandits(env[e]))
                 /\ log[1].value = Latent(env[e])
                 /\ Len(Latent(env[e])) = num_bandits(env[e])
                 /\ \A i \in 2 .. Len(log) :
                       /\ log[i].size = None
                       /\ log[i].method = log[1].method

(* Three steps with valid actions and a reset: one sized request and three *)
(* scalar ones.                                                            *)
C8_Witness ==
    \E e \in DOMAIN env :
        /\ env[e].kind # "none"
        /\ num_bandits(env[e]) = 2
        /\ Len(hist[e]) = 4
        /\ IsStep(hist[e][1]) /\ IsStep(hist[e][2]) /\ IsStep(hist[e][4])
        /\ hist[e][3].op = "reset"
        /\ Len(rnd[env[e].rng].log) = 4

(* C9: construction calls the randomizer exactly once, with config.seed,   *)
(* before any draw; no step, get_reward or reset calls it again.  So the   *)
(* randomizer of an environment has the one call <<config.seed>>, made     *)
(* when its log was empty, and no draw ever found it unseeded.             *)
C9_SeededOnceAtConstruction ==
    \A e \in DOMAIN env :
        IF env[e].kind = "none"
        THEN \A r \in DOMAIN rnd : rnd[r].calls = << >> /\ rnd[r].log = << >>
        ELSE LET r == rnd[env[e].rng]
             IN  /\ r.calls = <<env[e].config.seed>>
                 /\ r.since = 0
                 /\ r.rgn.set
                 /\ \A i \in 1 .. Len(r.log) : r.log[i].raised # "AttributeError"

(* An environment seeded with 1 has been stepped, reset and asked for a    *)
(* reward.                                                                 *)
C9_Witness ==
    \E e \in DOMAIN env :
        /\ env[e].kind # "none"
        /\ env[e].config.seed = Some(1)
        /\ rnd[env[e].rng].calls = <<Some(1)>>
        /\ Len(hist[e]) = 3
        /\ IsStep(hist[e][1])
        /\ hist[e][2].op = "reset"
        /\ hist[e][3].op = "get_reward"

(* The instance r after the requests reqs[i], reqs[i+1], ... are made of   *)
(* it.                                                                     *)
RECURSIVE Replayed(_, _, _)
Replayed(r, reqs, i) ==
    IF i > Len(reqs) THEN r
    ELSE Replayed(Request(r, reqs[i].method, reqs[i].a, reqs[i].b,
                          reqs[i].size).rnd,
                  reqs, i + 1)

(* A freshly created instance called with the integer seed. *)
Fresh(kind, seed) == Call(NewRandomizer(kind), seed, SeedState(seed[1]))

(* The requests made of r since it was last called, with their outcomes. *)
SinceSeeded(r) == SubSeq(r.log, r.since + 1, Len(r.log))

LastSeed(r) == r.calls[Len(r.calls)]

(* C10: once an instance is called with an integer seed s, whatever was    *)
(* called and drawn on it before, the requests that follow return what     *)
(* the same requests return on a freshly created instance seeded with s.   *)
C10_ReseedingDiscardsTheStream ==
    \A r \in DOMAIN rnd :
        (Len(rnd[r].calls) > 0 /\ LastSeed(rnd[r]) # None) =>
            SinceSeeded(rnd[r])
               = Replayed(Fresh(rnd[r].kind, LastSeed(rnd[r])),
                          SinceSeeded(rnd[r]), 1).log

(* An instance was seeded, drew a value, was seeded again with an integer  *)
(* and drew a value again.                                                 *)
C10_Witness ==
    \E r \in DOMAIN rnd :
        /\ Len(rnd[r].calls) = 2
        /\ LastSeed(rnd[r]) # None
        /\ rnd[r].since = 1
        /\ rnd[r].log[1].raised = ""
        /\ Len(rnd[r].log) = 2
        /\ rnd[r].log[2].raised = ""

(* The calls among the first n on e that invoke get_reward. *)
RECURSIVE HookCallsOf(_, _)
HookCallsOf(h, n) ==
    IF n = 0 THEN 0
    ELSE HookCallsOf(h, n - 1)
         + (IF h[n].op \in {"get_reward", "step"} THEN 1 ELSE 0)

(* C11: every step(action) invokes get_reward exactly once, with the       *)
(* action it was given and before step_num is incremented, and returns     *)
(* (empty observation, the value get_reward returned, done).               *)
C11_StepCallsHookOnce ==
    \A e \in DOMAIN env :
        (Called(e) /\ LastCall(e).op = "step") =>
            LET c     == LastCall(e)
                calls == env[e].get_reward_calls
                k     == calls[Len(calls)]
            IN  /\ Len(calls) = HookCallsOf(hist[e], Len(hist[e]))
                /\ k.action = c.action
                /\ k.raised = c.raised
                /\ Returned(c) =>
                      /\ k.step_num = env[e].step_num - 1
                      /\ c.state = << >>
                      /\ c.reward = k.reward
                      /\ c.done = (env[e].step_num >= env[e].config.max_steps)

(* The second arm was stepped on after a step on the first, and both       *)
(* steps returned.                                                         *)
C11_Witness ==
    \E e \in DOMAIN env :
        /\ Called(e)
        /\ Len(hist[e]) = 2
        /\ IsStep(hist[e][1]) /\ hist[e][1].action = 0
        /\ IsStep(hist[e][2]) /\ hist[e][2].action = 1
        /\ env[e].get_reward_calls[2].action = 1
        /\ env[e].get_reward_calls[2].step_num = 1

(* C12: in every state reached by step, get_reward and reset calls the     *)
(* latent array has the values and the length the construction draw gave   *)
(* it, that length is num_bandits, and num_bandits is config.num_bandits.  *)
C12_LatentIsFixed ==
    \A e \in DOMAIN env :
        env[e].kind # "none" =>
            /\ Latent(env[e]) = rnd[env[e].rng].log[1].value
            /\ Len(Latent(env[e])) = num_bandits(env[e])
            /\ num_bandits(env[e]) = env[e].config.num_bandits
            /\ env[e].kind = "fixed" => env[e].rewards = << >>
            /\ env[e].kind = "gaussian" => env[e].probabilities = << >>

(* A two-armed environment after a step, a get_reward and a reset. *)
C12_Witness ==
    \E e \in DOMAIN env :
        /\ Called(e)
        /\ num_bandits(env[e]) = 2
        /\ Len(hist[e]) = 3
        /\ IsStep(hist[e][1])
        /\ hist[e][2].op = "get_reward" /\ Returned(hist[e][2])
        /\ hist[e][3].op = "reset"
        /\ Len(Latent(env[e])) = 2

(* The transition constructs or steps environment o and is no call on e. *)
ActsOnOther(e, o) ==
    /\ e # o
    /\ env'[o] # env[o]
    /\ env'[e] = env[e]
    /\ hist'[e] = hist[e]

(* C13: each environment exclusively owns its random stream: whichever     *)
(* randomizers the constructors were given, constructing or stepping one   *)
(* environment neither re-seeds nor advances the stream another            *)
(* environment draws from.                                                 *)
C13_ExclusiveStream ==
    [][\A e, o \in DOMAIN env :
          (env[e].kind # "none" /\ ActsOnOther(e, o)) =>
             /\ rnd'[env[e].rng].calls = rnd[env[e].rng].calls
             /\ rnd'[env[e].rng].rgn = rnd[env[e].rng].rgn]_vars

(* The two states of the lifecycle of an environment record. *)
IsActive(e) == e.step_num < e.config.max_steps

IsDone(e) == e.step_num >= e.config.max_steps

(* The transition is a step(action) of environment e that returned. *)
StepOf(e) ==
    /\ env[e].kind # "none"
    /\ Len(hist'[e]) = Len(hist[e]) + 1
    /\ IsStep(hist'[e][Len(hist'[e])])

(* C14: with Active = (step_num < max_steps) and Done = (step_num >=       *)
(* max_steps): a step from Done leads to Done, returns done = TRUE and     *)
(* raises step_num; a step from Active leads to Active or Done, and to     *)
(* Done exactly when it returns done; a reset leads to Active from any     *)
(* state; no transition but a reset leads from Done to Active.             *)
C14_Lifecycle ==
    [][\A e \in DOMAIN env :
          env[e].kind # "none" =>
             /\ (StepOf(e) /\ IsDone(env[e])) =>
                   /\ IsDone(env'[e])
                   /\ hist'[e][Len(hist'[e])].done
                   /\ env'[e].step_num > env[e].step_num
             /\ (StepOf(e) /\ IsActive(env[e])) =>
                   (IsDone(env'[e]) <=> hist'[e][Len(hist'[e])].done)
             /\ ResetOf(e) => IsActive(env'[e])
             /\ (IsDone(env[e]) /\ ~IsDone(env'[e])) => ResetOf(e)]_vars

(* Two steps past the end of the episode, then a reset: back to Active. *)
C14_Witness ==
    \E e \in DOMAIN env :
        /\ Called(e)
        /\ Len(hist[e]) = 3
        /\ IsStep(hist[e][1]) /\ hist[e][1].done
        /\ IsStep(hist[e][2]) /\ hist[e][2].done
        /\ hist[e][3].op = "reset"
        /\ IsActive(env[e])

(* The smallest positive multiple of num_bandits that is >= max_steps. *)
PassesEnd(config) ==
    config.num_bandits
       * ((config.max_steps + config.num_bandits - 1) \div config.num_bandits)

(* C15: the loop of main, on a fresh environment with num_bandits >= 1 and *)
(* a finite max_steps, terminates, and when it has ended step_num is the   *)
(* smallest positive multiple of num_bandits that is >= max_steps.         *)
C15_MainLoopEnds ==
    /\ <>MainFinished
    /\ [](MainFinished => env[1].step_num = PassesEnd(env[1].config))

(* The loop ended with step_num past max_steps: 3 arms, max_steps = 4,     *)
(* 6 steps.                                                                *)
C15_Witness ==
    /\ MainFinished
    /\ env[1].config.num_bandits = 3
    /\ env[1].config.max_steps = 4
    /\ env[1].step_num = 6
    /\ Len(hist[1]) = 6

(* The transition is a step(action) call on environment e with an action   *)
(* that is not below num_bandits.                                          *)
StepOutOfRangeOf(e) ==
    /\ env[e].kind # "none"
    /\ Len(hist'[e]) = Len(hist[e]) + 1
    /\ hist'[e][Len(hist'[e])].op = "step"
    /\ hist'[e][Len(hist'[e])].action >= num_bandits(env[e])

(* C16: a step whose action is not below num_bandits raises the IndexError *)
(* of get_reward and leaves step_num (and the latent array) unchanged.  In *)
(* the fixed-value variant the roll was drawn first: the randomizer got    *)
(* one scalar uniform request and its generator advanced by one value.  In *)
(* the Gaussian variant no request was made: the randomizers are as before.*)
C16_OutOfRangeStep ==
    [][\A e \in DOMAIN env :
          StepOutOfRangeOf(e) =>
             LET r == env[e].rng
             IN  /\ hist'[e][Len(hist'[e])].raised = "IndexError"
                 /\ env'[e].step_num = env[e].step_num
                 /\ Latent(env'[e]) = Latent(env[e])
                 /\ env[e].kind = "fixed" =>
                       /\ Len(rnd'[r].log) = Len(rnd[r].log) + 1
                       /\ rnd'[r].log[Len(rnd'[r].log)].method = "uniform"
                       /\ rnd'[r].log[Len(rnd'[r].log)].size = None
                       /\ rnd'[r].log[Len(rnd'[r].log)].raised = ""
                       /\ rnd'[r].rgn = Gen(Advance(rnd[r].rgn.state))
                 /\ env[e].kind = "gaussian" => rnd' = rnd]_vars

(* After a step that returned, a step on a fixed-value environment failed  *)
(* on its index: step_num is still 1 and three requests were made.         *)
C16_Witness ==
    \E e \in DOMAIN env :
        /\ Called(e)
        /\ env[e].kind = "fixed"
        /\ Len(hist[e]) = 2
        /\ IsStep(hist[e][1])
        /\ hist[e][2].op = "step"
        /\ hist[e][2].raised = "IndexError"
        /\ hist[e][2].action = num_bandits(env[e])
        /\ env[e].step_num = 1
        /\ Len(rnd[env[e].rng].log) = 3

====
